---- MODULE Spec2Model ----
(***************************************************************************)
(* A model of the CMOR normalisation pipelines of koldunovn/aimip:         *)
(*   cmor_utils.cmorize_data_with_template      (direct replacement)       *)
(*   cmorize_from_template.__main__ / create_cmor_file / create_bounds     *)
(*                                               (regrid-and-build)        *)
(*   extract_pressure_level.extract_pressure_level   (single-level subset) *)
(*   extract_plevels_multi.process_netcdf_file       (multi-level subset)  *)
(*                                                                         *)
(* A dataset is a record: global attributes, variables (dimensions,        *)
(* attributes, encoding, payload), the iteration order of the variables,   *)
(* the set of coordinate names and the dimension lengths.  A Python string *)
(* is a sequence of tokens, so that string formatting is concatenation.    *)
(* None is NoneVal for a number and NoneChunks for a chunk-size tuple.     *)
(***************************************************************************)
EXTENDS Integers, Sequences, FiniteSets, TLC

VARIABLES
    fs,             \* the file system: path -> file
    clock,          \* datetime.now(pytz.utc) in whole seconds: never earlier than before
    budget,         \* invocations the caller still makes
    pc,             \* position of the running invocation ("idle": none)
    call,           \* the arguments of the running invocation
    template_ds,    \* the dataset read from the template file (ds in the subset scripts)
    regridded_ds,   \* the dataset handed to create_cmor_file
    cmor_ds,        \* the product being built (ds_subset in the subset scripts)
    main_var_name,  \* the resolved main variable
    encoding,       \* the encoding map handed to the serializer
    handle,         \* the template file handle: "closed" or "open"
    outcome,        \* how the last invocation ended
    log,            \* the kinds of message the running invocation printed
    writes,         \* calls of to_netcdf made by the running invocation
    opens,          \* calls of open_dataset made by the running invocation
    coord_vals,     \* create_bounds: the argument
    bounds          \* create_bounds: the result

vars == <<fs, clock, budget, pc, call, template_ds, regridded_ds, cmor_ds,
          main_var_name, encoding, handle, outcome, log, writes, opens,
          coord_vals, bounds>>

pipeVars == <<fs, clock, budget, pc, call, template_ds, regridded_ds, cmor_ds,
              main_var_name, encoding, handle, outcome, log, writes, opens>>

-----------------------------------------------------------------------------
(* Bounds of the model.                                                    *)

\* SpecChain: invocations in one behaviour (a later one may read an earlier one's output)
MaxRuns == 2
\* create_bounds: longest coordinate array tried
MaxLen == 3
\* create_bounds: coordinate values are the representable ones of 0, 2, ... , 2 * MaxCoord
MaxCoord == 10
\* create_bounds: bits of mantissa of the floating-point format (np.float64 has 53)
MantissaBits == 3

-----------------------------------------------------------------------------
(* Python values.                                                          *)

NoneVal == -1
NoneChunks == <<-1>>
\* a chunk size that min() cannot compare with an int
BadChunk == -2

Tok(kind, ts, txt) == [kind |-> kind, ts |-> ts, txt |-> txt]
Str(s) == <<Tok("text", 0, s)>>
EmptyStr == <<>>
Sep == Tok("sep", 0, " ; ")

EmptyMap == [x \in {} |-> 0]
Has(m, k) == k \in DOMAIN m
Put(m, k, v) == [x \in DOMAIN m \cup {k} |-> IF x = k THEN v ELSE m[x]]
Del(m, k) == [x \in DOMAIN m \ {k} |-> m[x]]
\* dict.get(k) with None for a missing number
GetNum(m, k) == IF Has(m, k) THEN m[k] ELSE NoneVal
\* Python truthiness of a number or None
Truthy(x) == x # NoneVal /\ x # 0
\* a or b
PyOr(a, b) == IF Truthy(a) THEN a ELSE b
Min(a, b) == IF a <= b THEN a ELSE b

SeqToSet(s) == {s[i] : i \in 1..Len(s)}
RECURSIVE Filter(_, _)
Filter(s, keep) ==
    IF s = <<>> THEN <<>>
    ELSE (IF Head(s) \in keep THEN <<Head(s)>> ELSE <<>>) \o Filter(Tail(s), keep)

\* '_bnds' in name
IsBndsName(n) == n \in {"time_bnds", "lat_bnds", "lon_bnds", "plev_bnds"}

-----------------------------------------------------------------------------
(* Datasets.                                                               *)

Var(dims, attrs, enc, data, vals) ==
    [dims |-> dims, attrs |-> attrs, enc |-> enc, data |-> data, vals |-> vals]

EmptyDs == [attrs |-> EmptyMap, vars |-> EmptyMap, order |-> <<>>,
            coords |-> {}, dimlen |-> EmptyMap]

Variables(ds) == ds.order
InDs(ds, n) == n \in DOMAIN ds.vars
DataVars(ds) == Filter(ds.order, DOMAIN ds.vars \ ds.coords)
InDataVars(ds, n) == n \in DOMAIN ds.vars /\ n \notin ds.coords
Shape(ds, n) == [i \in 1..Len(ds.vars[n].dims) |-> ds.dimlen[ds.vars[n].dims[i]]]

\* ds[name] = var, for a new or an existing name
SetVar(ds, n, v) ==
    [ds EXCEPT !.vars = Put(ds.vars, n, v),
               !.order = IF n \in DOMAIN ds.vars THEN ds.order ELSE Append(ds.order, n)]
SetVarAttrs(ds, n, a) == [ds EXCEPT !.vars = Put(ds.vars, n, [ds.vars[n] EXCEPT !.attrs = a])]

NoFile == [kind |-> "none", ds |-> EmptyDs]
File(ds) == [kind |-> "file", ds |-> ds]
Corrupt == [kind |-> "corrupt", ds |-> EmptyDs]

-----------------------------------------------------------------------------
(* The template files the invocations start from.  A template is what       *)
(* xr.open_dataset(path, decode_times=False) yields for a CMOR file: fill   *)
(* values and chunk sizes sit in the encoding, not in the attributes.       *)

ChunksAbsent == <<>>
Paths == {"tmpl", "out"}
OutputPath == "out"

\* the encoding xarray records for a variable read from a file
FileEnc(fill, mv, chunks) ==
    LET e0 == ("dtype" :> Str("float32")) @@ ("source" :> Str("tmpl.nc"))
        e1 == IF fill = NoneVal THEN e0 ELSE Put(e0, "_FillValue", fill)
        e2 == IF mv = NoneVal THEN e1 ELSE Put(e1, "missing_value", mv)
    IN  IF chunks = ChunksAbsent THEN e2 ELSE Put(e2, "chunksizes", chunks)

StrayAttrs(p, a) == IF p.stray THEN Put(a, "coordinates", Str("height")) ELSE a

GlobalAttrs(p, main) ==
    LET a0 == "source_id" :> Str("MPI-ESM1-2-LR")
        a1 == CASE p.vid = "absent"  -> a0
                [] p.vid = "empty"   -> Put(a0, "variable_id", EmptyStr)
                [] p.vid = "main"    -> Put(a0, "variable_id", Str(main))
                [] p.vid = "coord"   -> Put(a0, "variable_id", Str("lat"))
                [] p.vid = "unknown" -> Put(a0, "variable_id", Str("pr"))
        a2 == IF p.contact THEN Put(a1, "contact", Str("mpi@example.org")) ELSE a1
    IN  CASE p.hist = "absent" -> a2
          [] p.hist = "empty"  -> Put(a2, "history", EmptyStr)
          [] p.hist = "prior"  -> Put(a2, "history", Str("2019-08-15 CMOR rewrote data"))

\* a near-surface field: time, time_bnds, lat, lat_bnds, lon, [height,] tas; height is
\* a scalar, or a dimension of length one (p.hdim)
SurfaceTemplate(p) ==
    LET order == <<"time", "time_bnds", "lat", "lat_bnds", "lon">>
                 \o (IF p.height THEN <<"height">> ELSE <<>>) \o <<"tas">>
        mainAttrs == IF p.height \/ p.stray
                     THEN ("units" :> Str("K")) @@ ("coordinates" :> Str("height"))
                     ELSE ("units" :> Str("K"))
        all ==
            [n \in SeqToSet(order) |->
                CASE n = "time" ->
                        Var(<<"time">>, "bounds" :> Str("time_bnds"),
                            FileEnc(p.bfill, NoneVal, <<4>>), "T", [i \in 1..p.ntime |-> i])
                  [] n = "time_bnds" ->
                        Var(<<"time", "bnds">>, StrayAttrs(p, EmptyMap),
                            FileEnc(p.bfill, NoneVal, <<1, 2>>), "T", <<>>)
                  [] n = "lat" ->
                        Var(<<"lat">>, "bounds" :> Str("lat_bnds"),
                            FileEnc(p.bfill, NoneVal, ChunksAbsent), "T", <<0, 4>>)
                  [] n = "lat_bnds" ->
                        Var(<<"lat", "bnds">>, StrayAttrs(p, EmptyMap),
                            FileEnc(p.bfill, NoneVal, NoneChunks), "T", <<>>)
                  [] n = "lon" ->
                        Var(<<"lon">>, "units" :> Str("degrees_east"),
                            FileEnc(p.bfill, NoneVal, ChunksAbsent), "T", <<0, 8>>)
                  [] n = "height" ->
                        Var(IF p.hdim THEN <<"height">> ELSE <<>>, "units" :> Str("m"),
                            FileEnc(p.bfill, NoneVal, ChunksAbsent), "T", <<2>>)
                  [] n = "tas" ->
                        Var(<<"time", "lat", "lon">>, mainAttrs,
                            FileEnc(p.fill, p.mv, p.chunks), "T", <<>>)]
    IN  [attrs |-> GlobalAttrs(p, "tas"),
         vars |-> all,
         order |-> order,
         coords |-> {"time", "lat", "lon"} \cup (IF p.height THEN {"height"} ELSE {}),
         dimlen |-> ("time" :> p.ntime) @@ ("lat" :> 2) @@ ("lon" :> 2) @@ ("bnds" :> 2)
                    @@ ("height" :> 1)]

\* a field on pressure levels: time, [plev,] lat, lon, [plev_bnds,] main, time_bnds
LevelTemplate(p) ==
    LET main == p.main
        order == <<"time">> \o (IF p.plevCoord THEN <<"plev">> ELSE <<>>)
                 \o <<"lat", "lon">>
                 \o (IF p.plevBnds = "first" THEN <<"plev_bnds">> ELSE <<>>)
                 \o <<main>>
                 \o (IF p.plevBnds = "last" THEN <<"plev_bnds">> ELSE <<>>)
                 \o <<"time_bnds">>
        all ==
            [n \in SeqToSet(order) |->
                CASE n = "time" ->
                        Var(<<"time">>, "bounds" :> Str("time_bnds"),
                            FileEnc(p.bfill, NoneVal, <<4>>), "T", [i \in 1..p.ntime |-> i])
                  [] n = "plev" ->
                        Var(<<"plev">>, "units" :> Str("Pa"),
                            FileEnc(p.bfill, NoneVal, <<3>>), "T", <<10, 5, 1>>)
                  [] n = "lat" ->
                        Var(<<"lat">>, "units" :> Str("degrees_north"),
                            FileEnc(p.bfill, NoneVal, ChunksAbsent), "T", <<0, 4>>)
                  [] n = "lon" ->
                        Var(<<"lon">>, "units" :> Str("degrees_east"),
                            FileEnc(p.bfill, NoneVal, ChunksAbsent), "T", <<0, 8>>)
                  [] n = "plev_bnds" ->
                        Var(<<"plev", "bnds">>, StrayAttrs(p, EmptyMap),
                            FileEnc(p.bfill, NoneVal, <<3, 2>>), "T", <<>>)
                  [] n = "time_bnds" ->
                        Var(<<"time", "bnds">>, StrayAttrs(p, EmptyMap),
                            FileEnc(p.bfill, NoneVal, <<1, 2>>), "T", <<>>)
                  [] n = main ->
                        Var(<<"time", "plev", "lat", "lon">>, "units" :> Str("m"),
                            FileEnc(p.fill, p.mv, p.chunks), "T", <<>>)]
    IN  [attrs |-> GlobalAttrs(p, main),
         vars |-> all,
         order |-> order,
         coords |-> {"time", "lat", "lon"} \cup (IF p.plevCoord THEN {"plev"} ELSE {}),
         dimlen |-> ("time" :> p.ntime) @@ ("plev" :> 3) @@ ("lat" :> 2) @@ ("lon" :> 2)
                    @@ ("bnds" :> 2)]

Template(p) == IF p.kind = "surface" THEN SurfaceTemplate(p) ELSE LevelTemplate(p)

-----------------------------------------------------------------------------
(* The external collaborators: xr.open_dataset and Dataset.to_netcdf.       *)

\* the 'coordinates' attribute of v names a variable the file does not have
Dangling(ds, v) ==
    /\ Has(v.attrs, "coordinates")
    /\ \A n \in DOMAIN ds.vars : v.attrs["coordinates"] # Str(n)

\* names listed in some variable's 'coordinates' attribute
CoordinatesNamed(ds) ==
    {n \in DOMAIN ds.vars :
        \E m \in DOMAIN ds.vars :
            /\ Has(ds.vars[m].attrs, "coordinates")
            /\ ds.vars[m].attrs["coordinates"] = Str(n)}

\* xr.open_dataset: CF decoding moves missing_value and coordinates from the
\* attributes to the encoding, records the file as encoding['source'], and makes a
\* coordinate of every variable named after one of its dimensions or listed in a
\* 'coordinates' attribute.  A 'coordinates' attribute that names a variable the file
\* lacks stays an attribute in the xarray releases that decode it only when every
\* name resolves (keepDangling), and is moved like any other in the later ones.
OpenDataset(ds, path, keepDangling) ==
    [ds EXCEPT
        !.vars = [n \in DOMAIN ds.vars |->
                    LET v == ds.vars[n]
                        e0 == Put(v.enc, "source", Str(path))
                        mv == Has(v.attrs, "missing_value")
                        co == Has(v.attrs, "coordinates") /\ ~(keepDangling /\ Dangling(ds, v))
                        e1 == IF mv THEN Put(e0, "missing_value", v.attrs["missing_value"]) ELSE e0
                        e2 == IF co THEN Put(e1, "coordinates", v.attrs["coordinates"]) ELSE e1
                        a1 == IF mv THEN Del(v.attrs, "missing_value") ELSE v.attrs
                        a2 == IF co THEN Del(a1, "coordinates") ELSE a1
                    IN  [v EXCEPT !.attrs = a2, !.enc = e2]],
        !.coords = {n \in DOMAIN ds.vars : ds.vars[n].dims = <<n>>}
                   \cup CoordinatesNamed(ds)]

\* a key of an encoding handed to the serializer whose value is None is not written
IsNoneEnc(k, v) == (k = "_FillValue" /\ v = NoneVal) \/ (k = "chunksizes" /\ v = NoneChunks)

\* Dataset.to_netcdf(path, encoding=encoding): the file holds the dataset with the
\* encodings of the map
ToNetcdf(ds, enc) ==
    [ds EXCEPT
        !.vars = [n \in DOMAIN ds.vars |->
                    LET e == IF n \in DOMAIN enc THEN enc[n] ELSE EmptyMap
                    IN  [ds.vars[n] EXCEPT
                            !.enc = [k \in {x \in DOMAIN e : ~IsNoneEnc(x, e[x])} |-> e[k]]]]]

-----------------------------------------------------------------------------
(* What every invocation shares: its start, open_dataset, its end.          *)

NoCall == [kind |-> "none", template_path |-> "tmpl", user_shape |-> <<>>,
           metadata_overrides |-> EmptyMap, regridded |-> "none", levels |-> <<>>]
NoOutcome == [status |-> "none", error |-> "none"]
Returned == [status |-> "returned", error |-> "none"]
Raised(e) == [status |-> "raised", error |-> e]

\* mutant: no pipeline catches anything
PropagatesAlways(kind) == TRUE

\* the pipelines that let an exception reach their caller; the subset scripts catch it
Propagates(kind) == kind \in {"direct", "regrid"}

\* the invocation ends: the with block closes the template handle
End(o, msgs) ==
    /\ pc' = "done"
    /\ outcome' = o
    /\ log' = log \cup msgs
    /\ handle' = "closed"

\* an exception leaves the function: raised to the caller, or caught by the
\* subset scripts' except clauses, which print it and return
Throw(e) ==
    IF Propagates(call.kind)
    THEN End(Raised(e), {})
    ELSE End(Returned, {IF e = "FileNotFoundError" THEN "error:not_found"
                                                   ELSE "error:unexpected:" \o e})

Begin(c) ==
    /\ pc = "idle"
    /\ budget > 0
    /\ budget' = budget - 1
    /\ clock' \in {clock, clock + 1}
    /\ call' = c
    /\ pc' = "open"
    /\ outcome' = NoOutcome
    /\ log' = {}
    /\ writes' = 0
    /\ opens' = 0
    /\ UNCHANGED <<fs, template_ds, regridded_ds, cmor_ds, main_var_name,
                   encoding, handle, coord_vals, bounds>>

\* with xr.open_dataset(template_path, decode_times=False) as template_ds
OpenTemplate ==
    /\ pc = "open"
    /\ opens' = opens + 1
    /\ LET f == fs[call.template_path] IN
         \/ /\ f.kind = "none"
            /\ Throw("FileNotFoundError")
            /\ UNCHANGED template_ds
         \/ /\ f.kind = "corrupt"
            /\ Throw("OSError")
            /\ UNCHANGED template_ds
         \/ /\ f.kind = "file"
            /\ \E keepDangling \in BOOLEAN :
                  template_ds' = OpenDataset(f.ds, call.template_path, keepDangling)
            /\ handle' = "open"
            /\ pc' = call.kind \o ":resolve"
            /\ UNCHANGED <<outcome, log>>
    /\ UNCHANGED <<fs, clock, budget, call, regridded_ds, cmor_ds, main_var_name,
                   encoding, writes, coord_vals, bounds>>

\* the function has returned or raised: its locals are gone
Return ==
    /\ pc = "done"
    /\ pc' = "idle"
    /\ call' = NoCall
    /\ template_ds' = EmptyDs
    /\ regridded_ds' = EmptyDs
    /\ cmor_ds' = EmptyDs
    /\ main_var_name' = ""
    /\ encoding' = EmptyMap
    /\ outcome' = NoOutcome
    /\ log' = {}
    /\ writes' = 0
    /\ opens' = 0
    /\ UNCHANGED <<fs, clock, budget, handle, coord_vals, bounds>>

\* to_netcdf(output_path, encoding=encoding, unlimited_dims=['time']): the file is
\* written, or the write fails and leaves nothing or a truncated file behind
Serialize ==
    /\ writes' = writes + 1
    /\ \/ /\ fs' = [fs EXCEPT ![OutputPath] = File(ToNetcdf(cmor_ds, encoding))]
          /\ End(Returned, {"success"})
       \/ /\ \E f \in {fs[OutputPath], Corrupt} : fs' = [fs EXCEPT ![OutputPath] = f]
          /\ Throw("OSError")

-----------------------------------------------------------------------------
(* Steps shared by cmorize_data_with_template and create_cmor_file.         *)

valid_keys == {"_FillValue", "dtype", "scale_factor", "add_offset", "units", "calendar",
               "zlib", "complevel", "shuffle", "fletcher32", "contiguous", "chunksizes",
               "least_significant_digit"}

\* {k: v for k, v in var_encoding.items() if k in valid_keys}
FilterValid(e) == [k \in DOMAIN e \cap valid_keys |-> e[k]]

\* template_ds.attrs.get('variable_id'), "" when it is None or empty
VariableId(ds) ==
    IF Has(ds.attrs, "variable_id") /\ ds.attrs["variable_id"] # EmptyStr
    THEN ds.attrs["variable_id"][1].txt
    ELSE ""

\* template_ds.attrs.get('history', '')
PriorHistory(ds) == IF Has(ds.attrs, "history") THEN ds.attrs["history"] ELSE EmptyStr

\* mutant: the new entry goes behind the prior history
HistoryAppended(now, description, prior) == prior \o <<Sep>> \o <<Tok("entry", now, description)>>

\* f"{timestamp}: {description} ; {prior}"
HistoryString(now, description, prior) == <<Tok("entry", now, description)>> \o <<Sep>> \o prior

\* mutant: height stays a coordinate
KeepHeight(ds) == ds

\* reset_coords raises ValueError on an index coordinate (a dimension's own)
DemoteRaises(ds) == "height" \in ds.coords /\ ds.vars["height"].dims = <<"height">>

\* cmor_ds.reset_coords(['height']) when 'height' in cmor_ds.coords
DemoteHeight(ds) ==
    IF "height" \in ds.coords THEN [ds EXCEPT !.coords = ds.coords \ {"height"}] ELSE ds

\* var_name in cmor_ds.coords or '_bnds' in var_name or var_name == 'height'
SuppressFill(ds, n) == n \in ds.coords \/ IsBndsName(n) \/ n = "height"

\* mutant: only the bounds variables are cleaned
CleanBoundsOnly(ds, main) ==
    [ds EXCEPT !.vars = [n \in DOMAIN ds.vars |->
        IF Has(ds.vars[n].attrs, "coordinates") /\ IsBndsName(n)
        THEN [ds.vars[n] EXCEPT !.attrs = Del(ds.vars[n].attrs, "coordinates")]
        ELSE ds.vars[n]]]

\* del da.attrs['coordinates'] on every variable but the main one
CleanCoordinates(ds, main) ==
    [ds EXCEPT !.vars = [n \in DOMAIN ds.vars |->
        IF Has(ds.vars[n].attrs, "coordinates") /\ n # main
        THEN [ds.vars[n] EXCEPT !.attrs = Del(ds.vars[n].attrs, "coordinates")]
        ELSE ds.vars[n]]]

\* template_ds[var_name].encoding.copy() if var_name in template_ds else {}
TemplateEncoding(tds, n) == IF InDs(tds, n) THEN tds.vars[n].enc ELSE EmptyMap

-----------------------------------------------------------------------------
(* cmor_utils.cmorize_data_with_template                                    *)

UserShapes == {<<1, 2, 2>>, <<2, 2, 2>>, <<1, 3, 2, 2>>}

M_none == EmptyMap
M_model == ("source_id" :> Str("AWI-CM-1-1-MR")) @@ ("contact" :> Str("info@awi.de"))
M_hist == ("institution_id" :> Str("AWI")) @@ ("history" :> Str("written by me"))
OverrideMaps == {M_none, M_model, M_hist}

StartDirect ==
    \E t \in Paths, sh \in UserShapes, m \in OverrideMaps :
        Begin([kind |-> "direct", template_path |-> t, user_shape |-> sh,
               metadata_overrides |-> m, regridded |-> "none", levels |-> <<>>])

\* mutant: the name is looked up among all variables, coordinates included
ResolveFailsAnyVariable(ds) == VariableId(ds) = "" \/ ~InDs(ds, VariableId(ds))

\* not main_var_name or main_var_name not in template_ds.data_vars
ResolveFails(ds) == VariableId(ds) = "" \/ ~InDataVars(ds, VariableId(ds))

\* lines 25-29
DirectResolve ==
    /\ pc = "direct:resolve"
    /\ \/ /\ ResolveFails(template_ds)
          /\ Throw("ValueError")
          /\ UNCHANGED main_var_name
       \/ /\ ~ResolveFails(template_ds)
          /\ main_var_name' = VariableId(template_ds)
          /\ pc' = "direct:replace"
          /\ UNCHANGED <<outcome, log, handle>>
    /\ UNCHANGED <<fs, clock, budget, call, template_ds, regridded_ds, cmor_ds,
                   encoding, writes, opens, coord_vals, bounds>>

\* mutant: only the number of dimensions is compared
ShapeMismatchRankOnly(ds, main, shape) == Len(shape) # Len(Shape(ds, main))

\* user_data_array.shape != template_shape
ShapeMismatch(ds, main, shape) == shape # Shape(ds, main)

\* cmor_ds[main_var_name].data = user_data_array
ReplaceData(ds, main) == [ds EXCEPT !.vars[main].data = "U"]

\* lines 31-40: the deep copy, the shape check and the replacement
DirectReplace ==
    /\ pc = "direct:replace"
    /\ \/ /\ ShapeMismatch(template_ds, main_var_name, call.user_shape)
          /\ cmor_ds' = template_ds
          /\ Throw("ValueError")
       \/ /\ ~ShapeMismatch(template_ds, main_var_name, call.user_shape)
          /\ cmor_ds' = ReplaceData(template_ds, main_var_name)
          /\ pc' = "direct:override"
          /\ UNCHANGED <<outcome, log, handle>>
    /\ UNCHANGED <<fs, clock, budget, call, template_ds, regridded_ds, main_var_name,
                   encoding, writes, opens, coord_vals, bounds>>

\* mutant: a key the template lacks is not added
ApplyOverridesExistingOnly(attrs, m) ==
    [k \in DOMAIN attrs |-> IF k \in DOMAIN m THEN m[k] ELSE attrs[k]]

\* lines 44-50: an existing key is overridden, a missing key is added
ApplyOverridesDirect(attrs, m) ==
    [k \in DOMAIN attrs \cup DOMAIN m |-> IF k \in DOMAIN m THEN m[k] ELSE attrs[k]]

DirectOverride ==
    /\ pc = "direct:override"
    /\ cmor_ds' = [cmor_ds EXCEPT
                     !.attrs = ApplyOverridesDirect(cmor_ds.attrs, call.metadata_overrides)]
    /\ pc' = "direct:history"
    /\ UNCHANGED <<fs, clock, budget, call, template_ds, regridded_ds, main_var_name,
                   encoding, handle, outcome, log, writes, opens, coord_vals, bounds>>

DirectDescription == "Data replaced with user-provided in-memory data."

\* lines 52-55
DirectHistory ==
    /\ pc = "direct:history"
    /\ cmor_ds' = [cmor_ds EXCEPT
                     !.attrs = Put(cmor_ds.attrs, "history",
                                   HistoryString(clock, DirectDescription,
                                                 PriorHistory(template_ds)))]
    /\ pc' = "direct:encode"
    /\ UNCHANGED <<fs, clock, budget, call, template_ds, regridded_ds, main_var_name,
                   encoding, handle, outcome, log, writes, opens, coord_vals, bounds>>

\* lines 69-79 for one variable: no chunk-size arithmetic here
DirectVarEncoding(tds, ds, n) ==
    LET var_encoding == TemplateEncoding(tds, n)
    IN  FilterValid(IF SuppressFill(ds, n) THEN Put(var_encoding, "_FillValue", NoneVal)
                                           ELSE var_encoding)

\* lines 57-79: height is demoted, then the loop over cmor_ds.variables
DirectEncode ==
    /\ pc = "direct:encode"
    /\ \/ /\ DemoteRaises(cmor_ds)
          /\ Throw("ValueError")
          /\ UNCHANGED <<cmor_ds, encoding>>
       \/ /\ ~DemoteRaises(cmor_ds)
          /\ LET demoted == DemoteHeight(cmor_ds) IN
               /\ encoding' = [n \in DOMAIN demoted.vars |->
                                 DirectVarEncoding(template_ds, demoted, n)]
               /\ cmor_ds' = CleanCoordinates(demoted, main_var_name)
          /\ pc' = "direct:write"
          /\ UNCHANGED <<outcome, log, handle>>
    /\ UNCHANGED <<fs, clock, budget, call, template_ds, regridded_ds, main_var_name,
                   writes, opens, coord_vals, bounds>>

\* lines 81-84
DirectWrite ==
    /\ pc = "direct:write"
    /\ Serialize
    /\ UNCHANGED <<clock, budget, call, template_ds, regridded_ds, cmor_ds, main_var_name,
                   encoding, opens, coord_vals, bounds>>

-----------------------------------------------------------------------------
(* np.float64 arithmetic, at MantissaBits bits of mantissa: a number is an  *)
(* integer, every operation rounds its exact result to the nearest          *)
(* representable number, ties to even.                                      *)

Abs(x) == IF x < 0 THEN -x ELSE x
RECURSIVE Pow2(_)
Pow2(n) == IF n = 0 THEN 1 ELSE 2 * Pow2(n - 1)
\* the least e with m < 2^(MantissaBits + e)
RECURSIVE ExpOf(_, _)
ExpOf(m, e) == IF m < Pow2(MantissaBits + e) THEN e ELSE ExpOf(m, e + 1)

RoundFloat(x) ==
    LET m == Abs(x)
        e == ExpOf(m, 0)
        q == m \div Pow2(e)
        r == m % Pow2(e)
        up == e > 0 /\ (2 * r > Pow2(e) \/ (2 * r = Pow2(e) /\ q % 2 = 1))
        y == (IF up THEN q + 1 ELSE q) * Pow2(e)
    IN  IF x < 0 THEN -y ELSE y

Representable(x) == RoundFloat(x) = x
FAdd(a, b) == RoundFloat(a + b)
FSub(a, b) == RoundFloat(a - b)
\* x / 2 is exact in binary floating point
FHalf(x) == x \div 2

-----------------------------------------------------------------------------
(* cmorize_from_template.create_bounds                                      *)

\* bounds[0, 0] = coord_vals[0] - diffs[0] raises IndexError
CreateBoundsRaises(v) == Len(v) < 2

\* np.diff(coord_vals) / 2
Diffs(v) == [i \in 1..(Len(v) - 1) |-> FHalf(FSub(v[i + 1], v[i]))]

\* bounds[1:, 0] = coord_vals[1:] - diffs;  bounds[0, 0] = coord_vals[0] - diffs[0]
LowerBound(v, i) == IF i = 1 THEN FSub(v[1], Diffs(v)[1]) ELSE FSub(v[i], Diffs(v)[i - 1])

\* bounds[:-1, 1] = coord_vals[:-1] + diffs;  bounds[-1, 1] = coord_vals[-1] + diffs[-1]
UpperBound(v, i) ==
    IF i = Len(v) THEN FAdd(v[i], Diffs(v)[Len(v) - 1]) ELSE FAdd(v[i], Diffs(v)[i])

\* the N x 2 array, one <<lower, upper>> pair per coordinate value
create_bounds(v) == [i \in 1..Len(v) |-> <<LowerBound(v, i), UpperBound(v, i)>>]

RECURSIVE Flatten(_)
Flatten(b) == IF b = <<>> THEN <<>> ELSE Head(b) \o Flatten(Tail(b))

-----------------------------------------------------------------------------
(* cmorize_from_template: __main__, generate_example_regridded_data,        *)
(* create_cmor_file                                                         *)

\* the target grid (np.linspace(0.5, 359.5, 360) and np.linspace(-89.5, 89.5, 180)
\* in the source), three and four cells of one degree here
new_lon == <<2, 6, 10>>
new_lat == <<-6, -2, 2, 6>>

RegriddedKinds == {"generated", "renamed", "bounds_only"}

StartRegrid ==
    \E t \in Paths, r \in RegriddedKinds, m \in OverrideMaps :
        Begin([kind |-> "regrid", template_path |-> t, user_shape |-> <<>>,
               metadata_overrides |-> m, regridded |-> r, levels |-> <<>>])

\* wrap_ds[main_var_name].interp(lat=new_lat, lon=new_lon).to_dataset(name=name):
\* the variable on the new grid with the coordinates that belong to it
Regridded(tds, main, name) ==
    LET mv == tds.vars[main]
        keep == {n \in tds.coords : SeqToSet(tds.vars[n].dims) \subseteq SeqToSet(mv.dims)}
        order == Filter(tds.order, keep) \o <<name>>
    IN  [attrs |-> EmptyMap,
         vars |-> [n \in SeqToSet(order) |->
                    CASE n = name  -> Var(mv.dims, mv.attrs, EmptyMap, "R", <<>>)
                      [] n = "lat" /\ n # name -> [tds.vars[n] EXCEPT !.vals = new_lat, !.enc = EmptyMap]
                      [] n = "lon" /\ n # name -> [tds.vars[n] EXCEPT !.vals = new_lon, !.enc = EmptyMap]
                      [] OTHER     -> [tds.vars[n] EXCEPT !.enc = EmptyMap]],
         order |-> order,
         coords |-> keep,
         dimlen |-> [d \in SeqToSet(mv.dims) |->
                      CASE d = "lat" -> Len(new_lat)
                        [] d = "lon" -> Len(new_lon)
                        [] OTHER     -> tds.dimlen[d]]]

\* a dataset whose only data variable is a bounds variable
BoundsOnly(tds) ==
    [attrs |-> EmptyMap,
     vars |-> ("lat" :> Var(<<"lat">>, EmptyMap, EmptyMap, "R", new_lat))
              @@ ("lon" :> Var(<<"lon">>, EmptyMap, EmptyMap, "R", new_lon))
              @@ ("lat_bnds" :> Var(<<"lat", "bnds">>, EmptyMap, EmptyMap, "R", <<>>)),
     order |-> <<"lat", "lon", "lat_bnds">>,
     coords |-> {"lat", "lon"},
     dimlen |-> ("lat" :> Len(new_lat)) @@ ("lon" :> Len(new_lon)) @@ ("bnds" :> 2)]

\* the first data variable of the template on the target grid, under another name
Renamed(tds) ==
    LET cands == Filter(DataVars(tds), {n \in DOMAIN tds.vars :
                          {"lat", "lon"} \subseteq SeqToSet(tds.vars[n].dims)})
    IN  IF cands = <<>> THEN BoundsOnly(tds)
        ELSE Regridded(tds, cands[1], "field")

\* __main__ lines 170-172 with generate_example_regridded_data (lines 18-41), or a
\* caller of create_cmor_file who brings a regridded dataset of their own
RegridGenerate ==
    /\ pc = "regrid:resolve"
    /\ \/ /\ call.regridded = "generated"
          /\ ResolveFails(template_ds)
          /\ Throw("ValueError")
          /\ UNCHANGED regridded_ds
       \/ /\ call.regridded = "generated"
          /\ ~ResolveFails(template_ds)
          /\ regridded_ds' = Regridded(template_ds, VariableId(template_ds),
                                       VariableId(template_ds))
          /\ pc' = "regrid:create"
          /\ UNCHANGED <<outcome, log, handle>>
       \/ /\ call.regridded = "renamed"
          /\ regridded_ds' = Renamed(template_ds)
          /\ pc' = "regrid:create"
          /\ UNCHANGED <<outcome, log, handle>>
       \/ /\ call.regridded = "bounds_only"
          /\ regridded_ds' = BoundsOnly(template_ds)
          /\ pc' = "regrid:create"
          /\ UNCHANGED <<outcome, log, handle>>
    /\ UNCHANGED <<fs, clock, budget, call, template_ds, cmor_ds, main_var_name,
                   encoding, writes, opens, coord_vals, bounds>>

\* lines 51-55: name -> ndim of the data variables that are no bounds
CandidateVars(ds) ==
    Filter(DataVars(ds),
           {n \in DOMAIN ds.vars : ~IsBndsName(n) /\ "bnds" \notin SeqToSet(ds.vars[n].dims)})

\* max(candidate_vars, key=candidate_vars.get): the first of the largest ndim
RECURSIVE MaxNdim(_, _)
MaxNdim(ds, names) ==
    IF Len(names) = 1 THEN names[1]
    ELSE LET rest == MaxNdim(ds, Tail(names))
         IN  IF Len(ds.vars[names[1]].dims) >= Len(ds.vars[rest].dims) THEN names[1] ELSE rest

\* line 49: variable_id is used when it names a data variable of the regridded dataset
UsesVariableId(tds, rds) == VariableId(tds) # "" /\ InDataVars(rds, VariableId(tds))

\* create_cmor_file lines 47-58
RegridResolve ==
    /\ pc = "regrid:create"
    /\ \/ /\ UsesVariableId(template_ds, regridded_ds)
          /\ main_var_name' = VariableId(template_ds)
          /\ pc' = "regrid:attrs"
          /\ UNCHANGED <<outcome, log, handle>>
       \/ /\ ~UsesVariableId(template_ds, regridded_ds)
          /\ CandidateVars(regridded_ds) # <<>>
          /\ main_var_name' = MaxNdim(regridded_ds, CandidateVars(regridded_ds))
          /\ pc' = "regrid:attrs"
          /\ log' = log \cup {"warning:inferring"}
          /\ UNCHANGED <<outcome, handle>>
       \/ /\ ~UsesVariableId(template_ds, regridded_ds)
          /\ CandidateVars(regridded_ds) = <<>>
          /\ Throw("ValueError")
          /\ UNCHANGED main_var_name
    /\ UNCHANGED <<fs, clock, budget, call, template_ds, regridded_ds, cmor_ds,
                   encoding, writes, opens, coord_vals, bounds>>

\* lines 65-70: every variable the template also has takes the template's attributes
CopyVarAttrs(ds, tds) ==
    [ds EXCEPT !.vars = [n \in DOMAIN ds.vars |->
        IF InDs(tds, n) THEN [ds.vars[n] EXCEPT !.attrs = tds.vars[n].attrs] ELSE ds.vars[n]]]

\* template_encoding.get('_FillValue') or template_encoding.get('missing_value')
RegridFillValue(enc) == PyOr(GetNum(enc, "_FillValue"), GetNum(enc, "missing_value"))

\* lines 72-78
RestoreMissingValue(ds, tds, main) ==
    IF InDataVars(ds, main) /\ InDs(tds, main)
       /\ RegridFillValue(tds.vars[main].enc) # NoneVal
    THEN SetVarAttrs(ds, main, Put(ds.vars[main].attrs, "missing_value",
                                   RegridFillValue(tds.vars[main].enc)))
    ELSE ds

\* lines 60-78
RegridAttrs ==
    /\ pc = "regrid:attrs"
    /\ cmor_ds' = RestoreMissingValue(
                      CopyVarAttrs([regridded_ds EXCEPT !.attrs = template_ds.attrs],
                                   template_ds),
                      template_ds, main_var_name)
    /\ pc' = "regrid:aux"
    /\ UNCHANGED <<fs, clock, budget, call, template_ds, regridded_ds, main_var_name,
                   encoding, handle, outcome, log, writes, opens, coord_vals, bounds>>

\* the lengths of the dimensions of the product once `dims` are in it
WithDims(ds, tds, dims) ==
    [d \in DOMAIN ds.dimlen \cup SeqToSet(dims) |->
        IF d \in DOMAIN ds.dimlen THEN ds.dimlen[d] ELSE tds.dimlen[d]]

\* cmor_ds[var_name] = template_ds[var_name]: the variable is aligned to the
\* product's dimensions and brings the template's scalar coordinates with it
CopyVar(ds, tds, n) ==
    LET scalars == {c \in tds.coords : tds.vars[c].dims = <<>>} \ DOMAIN ds.vars
        d1 == [SetVar(ds, n, tds.vars[n]) EXCEPT
                 !.dimlen = WithDims(ds, tds, tds.vars[n].dims),
                 !.coords = ds.coords \cup (IF n \in tds.coords THEN {n} ELSE {})]
    IN  IF scalars = {} THEN d1
        ELSE LET c == CHOOSE x \in scalars : TRUE
             IN  [SetVar(d1, c, tds.vars[c]) EXCEPT !.coords = d1.coords \cup scalars]

RECURSIVE CopyVars(_, _, _)
CopyVars(ds, tds, names) ==
    IF names = <<>> THEN ds
    ELSE CopyVars(IF Head(names) = "height" \/ InDs(ds, Head(names))
                  THEN ds ELSE CopyVar(ds, tds, Head(names)),
                  tds, Tail(names))

\* lines 80-85
CopyAuxiliary(ds, tds) ==
    CopyVars(ds, tds, Filter(tds.order, DOMAIN tds.vars \ DOMAIN ds.vars))

\* lines 87-95: height becomes a scalar with the template's attributes; it is a
\* coordinate of the product when it was one there, or when the template's height is a
\* scalar coordinate (isel(..., drop=True) drops the coordinate of an indexed dimension)
ProcessHeight(ds, tds, main) ==
    IF ~InDs(tds, "height") THEN ds
    ELSE LET h == [tds.vars["height"] EXCEPT !.dims = <<>>,
                        !.vals = IF tds.vars["height"].vals = <<>> THEN <<>>
                                 ELSE <<tds.vars["height"].vals[1]>>]
             d1 == [SetVar(ds, "height", h) EXCEPT
                      !.coords = ds.coords \cup (IF "height" \in tds.coords
                                                    /\ tds.vars["height"].dims = <<>>
                                                 THEN {"height"} ELSE {})]
         IN  SetVarAttrs(d1, main, Put(d1.vars[main].attrs, "coordinates", Str("height")))

\* lines 97-101 for one of lat, lon
AddBounds(ds, c) ==
    LET b == Var(<<c, "bnds">>, EmptyMap, EmptyMap, "B", Flatten(create_bounds(ds.vars[c].vals)))
        d1 == [SetVar(ds, c \o "_bnds", b) EXCEPT
                 !.dimlen = Put(ds.dimlen, "bnds", 2),
                 !.coords = ds.coords \ {c \o "_bnds"}]
    IN  SetVarAttrs(d1, c, Put(d1.vars[c].attrs, "bounds", Str(c \o "_bnds")))

\* lines 80-101
RegridAuxiliary ==
    /\ pc = "regrid:aux"
    /\ LET d == ProcessHeight(CopyAuxiliary(cmor_ds, template_ds), template_ds, main_var_name) IN
         \/ /\ \E c \in {"lat", "lon"} : CreateBoundsRaises(d.vars[c].vals)
            /\ cmor_ds' = d
            /\ Throw("IndexError")
         \/ /\ \A c \in {"lat", "lon"} : ~CreateBoundsRaises(d.vars[c].vals)
            /\ cmor_ds' = AddBounds(AddBounds(d, "lat"), "lon")
            /\ pc' = "regrid:override"
            /\ UNCHANGED <<outcome, log, handle>>
    /\ UNCHANGED <<fs, clock, budget, call, template_ds, regridded_ds, main_var_name,
                   encoding, writes, opens, coord_vals, bounds>>

\* lines 104-108: only a key the product already has is overridden
ApplyOverridesRegrid(attrs, m) ==
    [k \in DOMAIN attrs |-> IF k \in DOMAIN m THEN m[k] ELSE attrs[k]]

RegridOverride ==
    /\ pc = "regrid:override"
    /\ cmor_ds' = [cmor_ds EXCEPT
                     !.attrs = ApplyOverridesRegrid(cmor_ds.attrs, call.metadata_overrides)]
    /\ pc' = "regrid:history"
    /\ UNCHANGED <<fs, clock, budget, call, template_ds, regridded_ds, main_var_name,
                   encoding, handle, outcome, log, writes, opens, coord_vals, bounds>>

RegridDescription == "Data regridded and CMORized."

\* lines 110-112
RegridHistory ==
    /\ pc = "regrid:history"
    /\ cmor_ds' = [cmor_ds EXCEPT
                     !.attrs = Put(cmor_ds.attrs, "history",
                                   HistoryString(clock, RegridDescription,
                                                 PriorHistory(template_ds)))]
    /\ pc' = "regrid:encode"
    /\ UNCHANGED <<fs, clock, budget, call, template_ds, regridded_ds, main_var_name,
                   encoding, handle, outcome, log, writes, opens, coord_vals, bounds>>

\* min(orig, new) raises TypeError on a chunk size that is no number
ChunkArithmeticRaises(chunks) == \E i \in 1..Len(chunks) : chunks[i] = BadChunk

\* tuple(min(orig, new) for orig, new in zip(original_chunks, da.shape))
ClampChunks(chunks, shape) == [i \in 1..Len(shape) |-> Min(chunks[i], shape[i])]

\* lines 138-147: clamp on equal rank, drop on a rank mismatch or an exception
RegridChunks(e, shape) ==
    IF Has(e, "chunksizes") /\ e["chunksizes"] # NoneChunks
    THEN IF Len(e["chunksizes"]) = Len(shape)
         THEN IF ChunkArithmeticRaises(e["chunksizes"])
              THEN Del(e, "chunksizes")
              ELSE Put(e, "chunksizes", ClampChunks(e["chunksizes"], shape))
         ELSE Del(e, "chunksizes")
    ELSE e

\* lines 127-149 for one variable
RegridVarEncoding(tds, ds, n) ==
    LET var_encoding == TemplateEncoding(tds, n)
        e1 == IF SuppressFill(ds, n) THEN Put(var_encoding, "_FillValue", NoneVal)
                                     ELSE var_encoding
    IN  FilterValid(RegridChunks(e1, Shape(ds, n)))

\* lines 114-149
RegridEncode ==
    /\ pc = "regrid:encode"
    /\ \/ /\ DemoteRaises(cmor_ds)
          /\ Throw("ValueError")
          /\ UNCHANGED <<cmor_ds, encoding>>
       \/ /\ ~DemoteRaises(cmor_ds)
          /\ LET demoted == DemoteHeight(cmor_ds) IN
               /\ encoding' = [n \in DOMAIN demoted.vars |->
                                 RegridVarEncoding(template_ds, demoted, n)]
               /\ cmor_ds' = CleanCoordinates(demoted, main_var_name)
          /\ pc' = "regrid:write"
          /\ UNCHANGED <<outcome, log, handle>>
    /\ UNCHANGED <<fs, clock, budget, call, template_ds, regridded_ds, main_var_name,
                   writes, opens, coord_vals, bounds>>

\* lines 151-153
RegridWrite ==
    /\ pc = "regrid:write"
    /\ Serialize
    /\ UNCHANGED <<clock, budget, call, template_ds, regridded_ds, cmor_ds, main_var_name,
                   encoding, opens, coord_vals, bounds>>

-----------------------------------------------------------------------------
(* What extract_pressure_level and process_netcdf_file share.               *)

\* the position of the value of vals nearest to x (method='nearest')
Nearest(vals, x) ==
    CHOOSE i \in 1..Len(vals) :
        \A j \in 1..Len(vals) :
            \/ Abs(vals[i] - x) < Abs(vals[j] - x)
            \/ (Abs(vals[i] - x) = Abs(vals[j] - x) /\ i <= j)

\* ds.sel(plev=levels, method='nearest') raises when plev has no index to look up
SelRaises(ds) == ~(InDs(ds, "plev") /\ "plev" \in ds.coords /\ ds.vars["plev"].vals # <<>>)

\* ds.sel(plev=levels, method='nearest'): the plev dimension is kept, with one entry
\* per requested level
Sel(ds, levels) ==
    [ds EXCEPT
        !.dimlen = Put(ds.dimlen, "plev", Len(levels)),
        !.vars = [n \in DOMAIN ds.vars |->
                    IF n = "plev"
                    THEN [ds.vars[n] EXCEPT
                            !.vals = [i \in 1..Len(levels) |->
                                        ds.vars[n].vals[Nearest(ds.vars[n].vals, levels[i])]]]
                    ELSE IF "plev" \in SeqToSet(ds.vars[n].dims)
                         THEN [ds.vars[n] EXCEPT !.data = "S"]
                         ELSE ds.vars[n]]]

\* the attribute is restored only from the key missing_value of the encoding
RestoreFromEncoding(sub, ds, main) ==
    IF InDs(sub, main) /\ InDs(ds, main) /\ Has(ds.vars[main].enc, "missing_value")
    THEN SetVarAttrs(sub, main, Put(sub.vars[main].attrs, "missing_value",
                                    ds.vars[main].enc["missing_value"]))
    ELSE sub

\* for var_name in ['time_bnds', 'lat_bnds', 'lon_bnds']: del attrs['coordinates']
StripBoundsCoordinates(sub) ==
    [sub EXCEPT !.vars = [n \in DOMAIN sub.vars |->
        IF n \in {"time_bnds", "lat_bnds", "lon_bnds"} /\ Has(sub.vars[n].attrs, "coordinates")
        THEN [sub.vars[n] EXCEPT !.attrs = Del(sub.vars[n].attrs, "coordinates")]
        ELSE sub.vars[n]]]

\* the chunk-size block of the subset scripts raises (no try around it)
SubsetChunksRaise(e, shape) ==
    /\ Has(e, "chunksizes") /\ e["chunksizes"] # NoneChunks
    /\ Len(e["chunksizes"]) = Len(shape)
    /\ ChunkArithmeticRaises(e["chunksizes"])

\* clamp on equal rank, drop on a rank mismatch
SubsetChunks(e, shape) ==
    IF Has(e, "chunksizes") /\ e["chunksizes"] # NoneChunks
    THEN IF Len(e["chunksizes"]) = Len(shape)
         THEN Put(e, "chunksizes", ClampChunks(e["chunksizes"], shape))
         ELSE Del(e, "chunksizes")
    ELSE e

\* the loop body of the subset scripts for one variable: filter, clamp, then no
\* fill value on every variable but `main`
SubsetVarEncoding(ds, sub, n, main) ==
    LET var_encoding == SubsetChunks(FilterValid(ds.vars[n].enc), Shape(sub, n))
    IN  IF n # main THEN Put(var_encoding, "_FillValue", NoneVal) ELSE var_encoding

SubsetEncodingRaises(ds, sub) ==
    \E n \in DOMAIN sub.vars : SubsetChunksRaise(FilterValid(ds.vars[n].enc), Shape(sub, n))

-----------------------------------------------------------------------------
(* extract_pressure_level.extract_pressure_level                            *)

SingleLevels == {<<4>>, <<10>>}

StartSingle ==
    \E t \in Paths, l \in SingleLevels :
        Begin([kind |-> "single", template_path |-> t, user_shape |-> <<>>,
               metadata_overrides |-> EmptyMap, regridded |-> "none", levels |-> l])

\* lines 19-24: pressure_coord not in ds.coords prints and returns
SingleResolve ==
    /\ pc = "single:resolve"
    /\ \/ /\ "plev" \notin template_ds.coords
          /\ End(Returned, {"error:no_plev"})
          /\ UNCHANGED main_var_name
       \/ /\ "plev" \in template_ds.coords
          /\ main_var_name' = "zg"
          /\ pc' = "single:select"
          /\ UNCHANGED <<outcome, log, handle>>
    /\ UNCHANGED <<fs, clock, budget, call, template_ds, regridded_ds, cmor_ds,
                   encoding, writes, opens, coord_vals, bounds>>

\* lines 26-42
SingleSelect ==
    /\ pc = "single:select"
    /\ \/ /\ SelRaises(template_ds)
          /\ Throw("KeyError")
          /\ UNCHANGED cmor_ds
       \/ /\ ~SelRaises(template_ds)
          /\ cmor_ds' = StripBoundsCoordinates(
                            RestoreFromEncoding(Sel(template_ds, call.levels),
                                                template_ds, "zg"))
          /\ pc' = "single:encode"
          /\ UNCHANGED <<outcome, log, handle>>
    /\ UNCHANGED <<fs, clock, budget, call, template_ds, regridded_ds, main_var_name,
                   encoding, writes, opens, coord_vals, bounds>>

\* lines 44-77
SingleEncode ==
    /\ pc = "single:encode"
    /\ \/ /\ SubsetEncodingRaises(template_ds, cmor_ds)
          /\ Throw("TypeError")
          /\ UNCHANGED encoding
       \/ /\ ~SubsetEncodingRaises(template_ds, cmor_ds)
          /\ encoding' = [n \in DOMAIN cmor_ds.vars |->
                            SubsetVarEncoding(template_ds, cmor_ds, n, "zg")]
          /\ pc' = "single:write"
          /\ UNCHANGED <<outcome, log, handle>>
    /\ UNCHANGED <<fs, clock, budget, call, template_ds, regridded_ds, cmor_ds,
                   main_var_name, writes, opens, coord_vals, bounds>>

\* lines 79-86
SingleWrite ==
    /\ pc = "single:write"
    /\ Serialize
    /\ UNCHANGED <<clock, budget, call, template_ds, regridded_ds, cmor_ds, main_var_name,
                   encoding, opens, coord_vals, bounds>>

-----------------------------------------------------------------------------
(* extract_plevels_multi.process_netcdf_file                                *)

MultiLevels == {<<10, 5>>, <<6>>}

StartMulti ==
    \E t \in Paths, l \in MultiLevels :
        Begin([kind |-> "multi", template_path |-> t, user_shape |-> <<>>,
               metadata_overrides |-> EmptyMap, regridded |-> "none", levels |-> l])

\* lines 19-23: the first data variable with a plev dimension ("" when there is none)
DetectMainVar(ds) ==
    LET c == Filter(DataVars(ds),
                    {n \in DOMAIN ds.vars : "plev" \in SeqToSet(ds.vars[n].dims)})
    IN  IF c = <<>> THEN "" ELSE c[1]

\* lines 18-28
MultiResolve ==
    /\ pc = "multi:resolve"
    /\ \/ /\ DetectMainVar(template_ds) = ""
          /\ End(Returned, {"error:no_plev_variable"})
          /\ UNCHANGED main_var_name
       \/ /\ DetectMainVar(template_ds) # ""
          /\ main_var_name' = DetectMainVar(template_ds)
          /\ pc' = "multi:select"
          /\ UNCHANGED <<outcome, log, handle>>
    /\ UNCHANGED <<fs, clock, budget, call, template_ds, regridded_ds, cmor_ds,
                   encoding, writes, opens, coord_vals, bounds>>

\* lines 30-45
MultiSelect ==
    /\ pc = "multi:select"
    /\ \/ /\ SelRaises(template_ds)
          /\ Throw("KeyError")
          /\ UNCHANGED cmor_ds
       \/ /\ ~SelRaises(template_ds)
          /\ cmor_ds' = StripBoundsCoordinates(
                            RestoreFromEncoding(Sel(template_ds, call.levels),
                                                template_ds, main_var_name))
          /\ pc' = "multi:encode"
          /\ UNCHANGED <<outcome, log, handle>>
    /\ UNCHANGED <<fs, clock, budget, call, template_ds, regridded_ds, main_var_name,
                   encoding, writes, opens, coord_vals, bounds>>

\* lines 47-70
MultiEncode ==
    /\ pc = "multi:encode"
    /\ \/ /\ SubsetEncodingRaises(template_ds, cmor_ds)
          /\ Throw("TypeError")
          /\ UNCHANGED encoding
       \/ /\ ~SubsetEncodingRaises(template_ds, cmor_ds)
          /\ encoding' = [n \in DOMAIN cmor_ds.vars |->
                            SubsetVarEncoding(template_ds, cmor_ds, n, main_var_name)]
          /\ pc' = "multi:write"
          /\ UNCHANGED <<outcome, log, handle>>
    /\ UNCHANGED <<fs, clock, budget, call, template_ds, regridded_ds, cmor_ds,
                   main_var_name, writes, opens, coord_vals, bounds>>

\* lines 72-79
MultiWrite ==
    /\ pc = "multi:write"
    /\ Serialize
    /\ UNCHANGED <<clock, budget, call, template_ds, regridded_ds, cmor_ds, main_var_name,
                   encoding, opens, coord_vals, bounds>>

-----------------------------------------------------------------------------
(* The specification.                                                       *)

BaseParams == [kind |-> "surface", vid |-> "main", contact |-> TRUE, hist |-> "prior",
               fill |-> 9, mv |-> 9, chunks |-> <<1, 2, 2>>, ntime |-> 1,
               height |-> TRUE, hdim |-> FALSE, bfill |-> 9, stray |-> TRUE,
               plevBnds |-> "none", plevCoord |-> TRUE, main |-> "tas"]

LevelParams == [BaseParams EXCEPT !.kind = "level", !.main = "zg", !.height = FALSE,
                                  !.chunks = <<1, 3, 2, 2>>]

\* variable_id, the global attributes and the history
AttrTemplates ==
    {[BaseParams EXCEPT !.vid = v, !.contact = c, !.hist = h] :
        v \in {"absent", "empty", "main", "coord", "unknown"},
        c \in BOOLEAN, h \in {"absent", "empty", "prior"}}

\* the fill value and missing_value recorded for the main variable
FillTemplates ==
    {[b EXCEPT !.fill = f, !.mv = m] :
        b \in {BaseParams, LevelParams}, f \in {NoneVal, 0, 9}, m \in {NoneVal, 9, 7}}

\* the chunk sizes recorded for the main variable, and the length of time
ChunkTemplates ==
    {[BaseParams EXCEPT !.chunks = c, !.ntime = t] :
        c \in {ChunksAbsent, NoneChunks, <<1, 2, 2>>, <<4, 2, 2>>, <<2, 2>>, <<BadChunk, 2, 2>>},
        t \in {1, 2}}
    \cup
    {[LevelParams EXCEPT !.chunks = c, !.ntime = t] :
        c \in {NoneChunks, <<1, 3, 2, 2>>, <<4, 3, 2, 2>>, <<3, 2, 2>>, <<BadChunk, 3, 2, 2>>},
        t \in {1, 2}}

\* height, stray coordinates attributes, fill values recorded for the other variables
HeightTemplates ==
    {[BaseParams EXCEPT !.height = h, !.stray = s, !.bfill = f] :
        h \in BOOLEAN, s \in BOOLEAN, f \in {NoneVal, 9}}
    \cup
    {[BaseParams EXCEPT !.hdim = TRUE, !.stray = s] : s \in BOOLEAN}

\* the variables of a file on pressure levels
LevelTemplates ==
    {[LevelParams EXCEPT !.plevBnds = b, !.plevCoord = c, !.main = m, !.bfill = f] :
        b \in {"none", "first", "last"}, c \in BOOLEAN, m \in {"zg", "ta"},
        f \in {NoneVal, 9}}

TemplateParams ==
    AttrTemplates \cup FillTemplates \cup ChunkTemplates \cup HeightTemplates
    \cup LevelTemplates

ChainParams ==
    {[b EXCEPT !.hist = h] : b \in {BaseParams, LevelParams}, h \in {"absent", "prior"}}

InitWith(params, n) ==
    /\ \E p \in params :
         fs = [x \in Paths |-> IF x = "tmpl" THEN File(Template(p)) ELSE NoFile]
    /\ clock = 0
    /\ budget = n
    /\ pc = "idle"
    /\ call = NoCall
    /\ template_ds = EmptyDs
    /\ regridded_ds = EmptyDs
    /\ cmor_ds = EmptyDs
    /\ main_var_name = ""
    /\ encoding = EmptyMap
    /\ handle = "closed"
    /\ outcome = NoOutcome
    /\ log = {}
    /\ writes = 0
    /\ opens = 0
    /\ coord_vals = <<>>
    /\ bounds = <<>>

\* one invocation on any of the templates
Init == InitWith(TemplateParams, 1)

\* up to MaxRuns invocations, a later one free to read an earlier one's output
InitChain == InitWith(ChainParams, MaxRuns)

Next ==
    \/ StartDirect
    \/ OpenTemplate
    \/ DirectResolve
    \/ DirectReplace
    \/ DirectOverride
    \/ DirectHistory
    \/ DirectEncode
    \/ DirectWrite
    \/ StartRegrid
    \/ RegridGenerate
    \/ RegridResolve
    \/ RegridAttrs
    \/ RegridAuxiliary
    \/ RegridOverride
    \/ RegridHistory
    \/ RegridEncode
    \/ RegridWrite
    \/ StartSingle
    \/ SingleResolve
    \/ SingleSelect
    \/ SingleEncode
    \/ SingleWrite
    \/ StartMulti
    \/ MultiResolve
    \/ MultiSelect
    \/ MultiEncode
    \/ MultiWrite
    \/ Return

Spec == Init /\ [][Next]_vars

SpecChain == InitChain /\ [][Next]_vars

-----------------------------------------------------------------------------
(* create_bounds on its own: every coordinate array of representable even   *)
(* numbers of up to MaxLen values.                                          *)

CoordValues == {x \in {2 * k : k \in 0..MaxCoord} : Representable(x)}

RECURSIVE SeqsUpTo(_, _)
SeqsUpTo(S, n) ==
    IF n = 0 THEN {<<>>}
    ELSE LET shorter == SeqsUpTo(S, n - 1)
         IN  shorter \cup {Append(q, x) : q \in {r \in shorter : Len(r) = n - 1}, x \in S}

InitBounds ==
    /\ coord_vals \in SeqsUpTo(CoordValues, MaxLen)
    /\ bounds = <<>>
    /\ pc = "bounds:call"
    /\ fs = [x \in Paths |-> NoFile]
    /\ clock = 0
    /\ budget = 0
    /\ call = NoCall
    /\ template_ds = EmptyDs
    /\ regridded_ds = EmptyDs
    /\ cmor_ds = EmptyDs
    /\ main_var_name = ""
    /\ encoding = EmptyMap
    /\ handle = "closed"
    /\ outcome = NoOutcome
    /\ log = {}
    /\ writes = 0
    /\ opens = 0

\* bounds = create_bounds(coord_vals)
CreateBoundsCall ==
    /\ pc = "bounds:call"
    /\ \/ /\ CreateBoundsRaises(coord_vals)
          /\ pc' = "bounds:raised"
          /\ outcome' = Raised("IndexError")
          /\ UNCHANGED bounds
       \/ /\ ~CreateBoundsRaises(coord_vals)
          /\ pc' = "bounds:done"
          /\ bounds' = create_bounds(coord_vals)
          /\ outcome' = Returned
    /\ UNCHANGED <<fs, clock, budget, call, template_ds, regridded_ds, cmor_ds,
                   main_var_name, encoding, handle, log, writes, opens, coord_vals>>

NextBounds == CreateBoundsCall

SpecBounds == InitBounds /\ [][NextBounds]_vars

-----------------------------------------------------------------------------
(* The claims.                                                              *)

WriteSteps == {"direct:write", "regrid:write", "single:write", "multi:write"}
\* the product and the encoding map are complete: about to be, or just, serialized
HandedToSerializer == pc \in WriteSteps \/ (pc = "done" /\ writes = 1)
TemplateLoaded == template_ds # EmptyDs
Succeeded == pc = "done" /\ outcome = Returned /\ "success" \in log

\* C1 (as claimed): right after the override step of cmorize_data_with_template and
\* of create_cmor_file, every key of the override map is a global attribute of the
\* product with the override's value, whether or not the template had the key.
C1_OverridesApplied ==
    pc \in {"direct:history", "regrid:history"} =>
        \A k \in DOMAIN call.metadata_overrides :
            /\ Has(cmor_ds.attrs, k)
            /\ cmor_ds.attrs[k] = call.metadata_overrides[k]

\* C2: in cmorize_data_with_template, an array whose shape differs from the shape of
\* the template's main variable ends the invocation with ValueError, to_netcdf is
\* never called and no file appears at the output path; with equal shapes the main
\* variable of the product, and of the written file, holds the caller's array.
C2_ShapeCheck ==
    (call.kind = "direct" /\ main_var_name # "") =>
        LET differs == call.user_shape # Shape(template_ds, main_var_name) IN
        /\ differs =>
              /\ pc \in {"direct:replace", "done"}
              /\ writes = 0
              /\ fs[OutputPath] = NoFile
              /\ pc = "done" => outcome = Raised("ValueError")
        /\ (~differs /\ pc \notin {"direct:replace"}) =>
              /\ cmor_ds.vars[main_var_name].data = "U"
              /\ Shape(cmor_ds, main_var_name) = call.user_shape
              /\ Succeeded => fs[OutputPath].ds.vars[main_var_name].data = "U"

C2_Witness ==
    /\ pc = "done" /\ call.kind = "direct" /\ main_var_name # ""
    /\ call.user_shape # Shape(template_ds, main_var_name)
    /\ outcome = Raised("ValueError")

\* variable_id is present, not empty, and names a data variable of ds
NamesDataVariable(ds) ==
    /\ "variable_id" \in DOMAIN ds.attrs
    /\ Len(ds.attrs["variable_id"]) = 1
    /\ ds.attrs["variable_id"][1].txt \in DOMAIN ds.vars \ ds.coords

\* resolution from the template: the name is variable_id, or the invocation fails
\* with ValueError before anything is written
ResolvedFromTemplateOrFails ==
    /\ (NamesDataVariable(template_ds) /\ main_var_name # "") =>
          /\ main_var_name = template_ds.attrs["variable_id"][1].txt
          /\ main_var_name \in DOMAIN template_ds.vars \ template_ds.coords
    /\ ~NamesDataVariable(template_ds) =>
          /\ main_var_name = ""
          /\ writes = 0
          /\ fs[OutputPath] = NoFile
          /\ pc = "done" => outcome = Raised("ValueError")

\* C3 (as claimed): in the direct-replacement and the regrid-and-build pipeline alike,
\* a valid variable_id is the main variable and an absent, empty or invalid one
\* fails the invocation with nothing written.
C3_ResolutionOrFail ==
    (call.kind \in {"direct", "regrid"} /\ TemplateLoaded) => ResolvedFromTemplateOrFails

\* C3 (amended): that holds of cmorize_data_with_template and of
\* generate_example_regridded_data, hence of the regrid script's own run.
\* create_cmor_file looks variable_id up among the data variables of the regridded
\* dataset it is handed; when it is not there it infers the main variable, the first
\* non-bounds data variable of the most dimensions, and fails only without candidate.
C3_ResolutionOrFallback ==
    (call.kind \in {"direct", "regrid"} /\ TemplateLoaded) =>
        IF call.kind = "direct" \/ call.regridded = "generated"
        THEN ResolvedFromTemplateOrFails
        ELSE LET inRegridded == /\ "variable_id" \in DOMAIN template_ds.attrs
                                /\ Len(template_ds.attrs["variable_id"]) = 1
                                /\ template_ds.attrs["variable_id"][1].txt
                                      \in DOMAIN regridded_ds.vars \ regridded_ds.coords
                 cands == {n \in DOMAIN regridded_ds.vars \ regridded_ds.coords :
                              /\ ~IsBndsName(n)
                              /\ "bnds" \notin SeqToSet(regridded_ds.vars[n].dims)}
             IN  /\ main_var_name # "" =>
                      /\ main_var_name \in DOMAIN regridded_ds.vars \ regridded_ds.coords
                      /\ inRegridded => main_var_name = template_ds.attrs["variable_id"][1].txt
                      /\ ~inRegridded =>
                            /\ main_var_name \in cands
                            /\ \A n \in cands : Len(regridded_ds.vars[n].dims)
                                                  <= Len(regridded_ds.vars[main_var_name].dims)
                 /\ (pc = "done" /\ regridded_ds # EmptyDs /\ ~inRegridded /\ cands = {}) =>
                      /\ outcome = Raised("ValueError")
                      /\ main_var_name = ""
                      /\ writes = 0

C3_Witness ==
    /\ pc = "done" /\ call.kind = "regrid" /\ call.regridded = "renamed"
    /\ ~NamesDataVariable(template_ds)
    /\ main_var_name = "field"
    /\ Succeeded

\* C4: after cmorize_data_with_template has rewritten the history, the global
\* attributes of the product other than history are those of the template other than
\* history, updated with the entries of the override map and nothing else; the
\* written file carries the same.
C4_MetadataNoOp ==
    (call.kind = "direct" /\ (pc \in {"direct:encode", "direct:write"} \/ Succeeded)) =>
        LET T == template_ds.attrs
            M == call.metadata_overrides
            keys == (DOMAIN T \cup DOMAIN M) \ {"history"}
            expected == [k \in keys |-> IF k \in DOMAIN M THEN M[k] ELSE T[k]]
        IN  /\ Del(cmor_ds.attrs, "history") = expected
            /\ Succeeded => Del(fs[OutputPath].ds.attrs, "history") = expected

C4_Witness ==
    /\ Succeeded /\ call.kind = "direct"
    /\ call.metadata_overrides = M_hist
    /\ ~Has(template_ds.attrs, "contact")

\* the fill value the template's encoding records for variable n: _FillValue first,
\* missing_value second, NoneVal when neither key is there
RecordedFill(ds, n) ==
    IF "_FillValue" \in DOMAIN ds.vars[n].enc THEN ds.vars[n].enc["_FillValue"]
    ELSE IF "missing_value" \in DOMAIN ds.vars[n].enc THEN ds.vars[n].enc["missing_value"]
    ELSE NoneVal

\* C5 (as claimed): in the encoding map every pipeline hands to the serializer, each
\* variable named *_bnds, each coordinate variable and height has _FillValue None,
\* whatever the template's encoding recorded.
C5_FillSuppressed ==
    HandedToSerializer =>
        \A n \in DOMAIN cmor_ds.vars :
            (IsBndsName(n) \/ n \in cmor_ds.coords \/ n = "height") =>
                /\ n \in DOMAIN encoding
                /\ "_FillValue" \in DOMAIN encoding[n]
                /\ encoding[n]["_FillValue"] = NoneVal

\* the chunk sizes the template records for n (absent and None alike: NoneChunks)
RecordedChunks(ds, n) ==
    IF n \in DOMAIN ds.vars /\ "chunksizes" \in DOMAIN ds.vars[n].enc
    THEN ds.vars[n].enc["chunksizes"] ELSE NoneChunks

\* C6 (as claimed): in the encoding map of every pipeline, recorded chunk sizes of
\* the product variable's rank come out as min(recorded, dimension length) on each
\* axis, recorded chunk sizes of another rank are dropped, and chunk sizes that
\* cannot be computed are dropped without the invocation failing.
C6_ChunksClamped ==
    /\ HandedToSerializer =>
        \A n \in DOMAIN encoding :
            LET rec == RecordedChunks(template_ds, n)
                shape == Shape(cmor_ds, n)
            IN  rec # NoneChunks =>
                  IF Len(rec) = Len(shape) /\ \A i \in 1..Len(rec) : rec[i] >= 0
                  THEN /\ "chunksizes" \in DOMAIN encoding[n]
                       /\ encoding[n]["chunksizes"]
                            = [i \in 1..Len(shape) |-> IF rec[i] <= shape[i] THEN rec[i]
                                                                             ELSE shape[i]]
                  ELSE "chunksizes" \notin DOMAIN encoding[n]
    /\ pc = "done" => (outcome # Raised("TypeError") /\ "error:unexpected:TypeError" \notin log)

\* C8 (as claimed): in create_cmor_file and in both subset scripts, when the
\* template's encoding of the main variable records a fill value (_FillValue first,
\* missing_value second), the product's main variable has the attribute
\* missing_value with that value.
C8_MissingValueRestored ==
    (HandedToSerializer /\ call.kind \in {"regrid", "single", "multi"}
        /\ main_var_name \in DOMAIN template_ds.vars
        /\ main_var_name \in DOMAIN cmor_ds.vars
        /\ RecordedFill(template_ds, main_var_name) # NoneVal) =>
            /\ "missing_value" \in DOMAIN cmor_ds.vars[main_var_name].attrs
            /\ cmor_ds.vars[main_var_name].attrs["missing_value"]
                  = RecordedFill(template_ds, main_var_name)

\* the description the pipeline of the running invocation writes into the history
Description == IF call.kind = "direct" THEN DirectDescription ELSE RegridDescription

\* C7: once cmorize_data_with_template or create_cmor_file has rewritten the history,
\* the history of the product, and of the file a successful run writes, is the new
\* entry (timestamp of this run and the fixed description), the separator " ; ", and
\* then the whole prior history of the template, unchanged and in its order (empty
\* when the template has none); so the entries stand most recent first.
C7_HistoryChained ==
    (call.kind \in {"direct", "regrid"}
        /\ (pc \in {"direct:encode", "direct:write", "regrid:encode", "regrid:write"}
            \/ Succeeded)) =>
        LET h == cmor_ds.attrs["history"]
            prior == PriorHistory(template_ds)
        IN  /\ h = <<Tok("entry", clock, Description), Sep>> \o prior
            /\ SubSeq(h, 3, Len(h)) = prior
            /\ \A i, j \in 1..Len(h) :
                  (i < j /\ h[i].kind = "entry" /\ h[j].kind = "entry") => h[i].ts >= h[j].ts
            /\ Succeeded => fs[OutputPath].ds.attrs["history"] = h

\* a second run on the output of a first: two entries, the separator between them
C7_Witness ==
    /\ Succeeded /\ call.kind \in {"direct", "regrid"} /\ call.template_path = OutputPath
    /\ LET h == fs[OutputPath].ds.attrs["history"]
       IN  /\ Len(h) >= 4
           /\ h[1].kind = "entry" /\ h[2] = Sep /\ h[3].kind = "entry" /\ h[4] = Sep
           /\ h[1].ts > h[3].ts

StrictlyMonotonic(v) ==
    \/ \A i \in 1..(Len(v) - 1) : v[i] < v[i + 1]
    \/ \A i \in 1..(Len(v) - 1) : v[i] > v[i + 1]

\* C9 (as claimed): create_bounds fails on fewer than two values; on a strictly
\* monotonic array of N >= 2 values it returns N pairs in which the upper bound of
\* every cell equals the lower bound of the next; [1, 2, 4, 8] (here in halves:
\* 2, 4, 8, 16) gives [[0.5, 1.5], [1.5, 3], [3, 6], [6, 10]].
C9_BoundsContiguous ==
    /\ pc # "bounds:call" => (pc = "bounds:raised" <=> Len(coord_vals) < 2)
    /\ create_bounds(<<2, 4, 8, 16>>) = <<<<1, 3>>, <<3, 6>>, <<6, 12>>, <<12, 20>>>>
    /\ (pc = "bounds:done" /\ StrictlyMonotonic(coord_vals)) =>
          /\ Len(bounds) = Len(coord_vals)
          /\ \A i \in 1..(Len(bounds) - 1) : bounds[i][2] = bounds[i + 1][1]

\* the precondition of the subset script of the running invocation fails
NoLevelAxis ==
    /\ TemplateLoaded
    /\ IF call.kind = "single"
       THEN "plev" \notin template_ds.coords
       ELSE \A n \in DOMAIN template_ds.vars \ template_ds.coords :
                "plev" \notin SeqToSet(template_ds.vars[n].dims)

ErrorMessages ==
    {"error:no_plev", "error:no_plev_variable", "error:not_found"}
    \cup {"error:unexpected:" \o e : e \in {"OSError", "KeyError", "TypeError"}}

\* C10: an invocation of extract_pressure_level or process_netcdf_file opens the
\* input once and calls to_netcdf at most once (nothing is retried); when the level
\* axis is missing, when the input file is missing, or when an exception is thrown,
\* it ends without success and with one error message printed; when the level axis
\* or the input file is missing to_netcdf is never called and no output file appears.
C10_SubsetErrorsFatal ==
    call.kind \in {"single", "multi"} =>
        /\ opens <= 1 /\ writes <= 1
        /\ NoLevelAxis =>
              /\ pc \in {"single:resolve", "multi:resolve", "done"}
              /\ writes = 0 /\ fs[OutputPath] = NoFile
        /\ pc = "done" =>
              /\ outcome = Returned
              /\ NoLevelAxis =>
                    log = {IF call.kind = "single" THEN "error:no_plev"
                                                   ELSE "error:no_plev_variable"}
              /\ fs[call.template_path] = NoFile /\ ~TemplateLoaded =>
                    log = {"error:not_found"} /\ writes = 0 /\ fs[OutputPath] = NoFile
              /\ (TemplateLoaded /\ ~NoLevelAxis /\ SelRaises(template_ds)) =>
                    log = {"error:unexpected:KeyError"} /\ writes = 0
              /\ ~Succeeded => (log \subseteq ErrorMessages /\ Cardinality(log) = 1)
              /\ Succeeded => log = {"success"}

C10_Witness ==
    /\ pc = "done" /\ call.kind = "multi" /\ NoLevelAxis
    /\ log = {"error:no_plev_variable"} /\ writes = 0

\* C11 (as claimed): the template handle an invocation opened is closed once the
\* invocation has ended, whichever way it ended, and it is already closed while the
\* output file is being written.
C11_HandleReleased ==
    /\ pc \in {"done", "idle"} => handle = "closed"
    /\ pc \in WriteSteps => handle = "closed"

\* C12: when the template has a variable height, the dataset cmorize_data_with_template
\* and create_cmor_file hand to the serializer has height as a variable that is no
\* coordinate; in create_cmor_file height has no dimension and holds the first value
\* of the template's height, it has the attributes of the template's height, and the
\* main variable's attribute coordinates is "height", in the product and in the file
\* a successful run writes.
C12_HeightOrdinary ==
    (HandedToSerializer /\ call.kind \in {"direct", "regrid"} /\ InDs(template_ds, "height")) =>
        /\ InDs(cmor_ds, "height")
        /\ "height" \notin cmor_ds.coords
        /\ call.kind = "regrid" =>
              /\ cmor_ds.vars["height"].dims = <<>>
              /\ cmor_ds.vars["height"].vals = <<template_ds.vars["height"].vals[1]>>
              /\ cmor_ds.vars["height"].attrs = template_ds.vars["height"].attrs
              /\ Has(cmor_ds.vars[main_var_name].attrs, "coordinates")
              /\ cmor_ds.vars[main_var_name].attrs["coordinates"] = Str("height")
        /\ Succeeded =>
              /\ InDs(fs[OutputPath].ds, "height")
              /\ "height" \notin fs[OutputPath].ds.coords
              /\ call.kind = "regrid" =>
                    /\ fs[OutputPath].ds.vars["height"].dims = <<>>
                    /\ Has(fs[OutputPath].ds.vars[main_var_name].attrs, "coordinates")
                    /\ fs[OutputPath].ds.vars[main_var_name].attrs["coordinates"] = Str("height")

\* create_cmor_file has written a product from a template whose height is a dimension
C12_Witness ==
    /\ Succeeded /\ call.kind = "regrid"
    /\ InDs(template_ds, "height") /\ template_ds.vars["height"].dims = <<"height">>
    /\ cmor_ds.vars["height"].dims = <<>>
    /\ "height" \notin cmor_ds.coords

\* the attributes the main variable has when the encoding loop starts: the template's
\* in cmorize_data_with_template; in create_cmor_file those of the template's variable
\* of that name, else of the regridded variable, with coordinates set to "height"
\* when the template has height
MainAttrsBefore ==
    LET base == IF InDs(template_ds, main_var_name)
                THEN template_ds.vars[main_var_name].attrs
                ELSE regridded_ds.vars[main_var_name].attrs
    IN  IF call.kind = "regrid" /\ InDs(template_ds, "height")
        THEN Put(base, "coordinates", Str("height"))
        ELSE base

\* C13: in the dataset cmorize_data_with_template and create_cmor_file hand to the
\* serializer, and in the file a successful run writes, no variable other than the
\* main variable has an attribute coordinates, and the main variable has the one it
\* had before the cleanup, if it had one.
C13_CoordinatesCleaned ==
    (HandedToSerializer /\ call.kind \in {"direct", "regrid"}) =>
        /\ \A n \in DOMAIN cmor_ds.vars \ {main_var_name} :
              ~Has(cmor_ds.vars[n].attrs, "coordinates")
        /\ Has(MainAttrsBefore, "coordinates") =>
              /\ Has(cmor_ds.vars[main_var_name].attrs, "coordinates")
              /\ cmor_ds.vars[main_var_name].attrs["coordinates"]
                    = MainAttrsBefore["coordinates"]
        /\ Succeeded =>
              /\ \A n \in DOMAIN fs[OutputPath].ds.vars \ {main_var_name} :
                    ~Has(fs[OutputPath].ds.vars[n].attrs, "coordinates")
              /\ Has(MainAttrsBefore, "coordinates") =>
                    Has(fs[OutputPath].ds.vars[main_var_name].attrs, "coordinates")

\* the template's time_bnds came with a coordinates attribute, the main variable too,
\* and the product was written
C13_Witness ==
    /\ Succeeded /\ call.kind \in {"direct", "regrid"}
    /\ Has(template_ds.vars["time_bnds"].attrs, "coordinates")
    /\ InDs(cmor_ds, "time_bnds")
    /\ Has(cmor_ds.vars[main_var_name].attrs, "coordinates")

\* the fill value written for variable n under the encoding map: the number, or
\* "none" for _FillValue None, or "default" when the map has no _FillValue for it
EmittedFill(n) ==
    IF ~Has(encoding[n], "_FillValue") THEN "default"
    ELSE IF encoding[n]["_FillValue"] = NoneVal THEN "none"
    ELSE "recorded"

\* C14 (as claimed): in extract_pressure_level and in process_netcdf_file the main
\* variable is the first data variable with a plev dimension, whatever its name; in
\* the encoding map handed to the serializer _FillValue is None on every other
\* variable and on no other, and the main variable has the _FillValue the template's
\* encoding records for it.
C14_SubsetMainVariable ==
    (HandedToSerializer /\ call.kind \in {"single", "multi"}) =>
        LET m == DetectMainVar(template_ds) IN
        /\ main_var_name = m
        /\ \A n \in DOMAIN encoding : (n # m) <=> (EmittedFill(n) = "none")
        /\ Has(template_ds.vars[m].enc, "_FillValue") =>
              /\ Has(encoding[m], "_FillValue")
              /\ encoding[m]["_FillValue"] = template_ds.vars[m].enc["_FillValue"]

====
